---- MODULE Spec2Model ----
(***************************************************************************)
(* The activity roster service: the store (Student, Activity and          *)
(* Participation rows), the per-call SQLAlchemy session, and the handlers  *)
(* get_activities, signup_for_activity, unregister_from_activity and       *)
(* init_db.  Every store query of a handler is one step of the calling     *)
(* process, so that concurrent calls interleave at the queries.            *)
(*                                                                         *)
(* Abstractions: a Student row is its email (the unique key; name, grade   *)
(* and class_section stay NULL), an Activity row is its name and           *)
(* max_participants, and a Participation row is its (student, activity)    *)
(* pair; the table is a bag, since nothing makes the pair unique.          *)
(***************************************************************************)
EXTENDS Bags, FiniteSets, Integers, Sequences, TLC

\* ------------------------------------------------------------------ bounds

\* A store found at startup has at most Slack free places in "Math Club".
Slack == 1

\* The calls in flight at once: the two concurrent calls of a race.
Procs == {1, 2}

\* ------------------------------------------------------- the program's data

\* database.py, init_db: the catalogue (description and schedule are inert).
activities_data ==
  << [name |-> "Chess Club",        max_participants |-> 12],
     [name |-> "Programming Class", max_participants |-> 20],
     [name |-> "Gym Class",         max_participants |-> 30],
     [name |-> "Soccer Team",       max_participants |-> 22],
     [name |-> "Basketball Team",   max_participants |-> 15],
     [name |-> "Art Club",          max_participants |-> 15],
     [name |-> "Drama Club",        max_participants |-> 20],
     [name |-> "Math Club",         max_participants |-> 10],
     [name |-> "Debate Team",       max_participants |-> 12] >>

\* database.py, init_db: the sample enrollments, in the dict's order.
sample_participants ==
  << [activity_name |-> "Chess Club",
      emails |-> <<"michael@mergington.edu", "daniel@mergington.edu">>],
     [activity_name |-> "Programming Class",
      emails |-> <<"emma@mergington.edu", "sophia@mergington.edu">>],
     [activity_name |-> "Gym Class",
      emails |-> <<"john@mergington.edu", "olivia@mergington.edu">>],
     [activity_name |-> "Soccer Team",
      emails |-> <<"liam@mergington.edu", "noah@mergington.edu">>],
     [activity_name |-> "Basketball Team",
      emails |-> <<"ava@mergington.edu", "mia@mergington.edu">>],
     [activity_name |-> "Art Club",
      emails |-> <<"amelia@mergington.edu", "harper@mergington.edu">>],
     [activity_name |-> "Drama Club",
      emails |-> <<"ella@mergington.edu", "scarlett@mergington.edu">>],
     [activity_name |-> "Math Club",
      emails |-> <<"james@mergington.edu", "benjamin@mergington.edu">>],
     [activity_name |-> "Debate Team",
      emails |-> <<"charlotte@mergington.edu", "henry@mergington.edu">>] >>

\* ------------------------------------------------------------------ inputs

\* Students enrolled by earlier runs of the service (the store is a file
\* that outlives the process).
EarlierStudents ==
  << "s01@e.edu", "s02@e.edu", "s03@e.edu", "s04@e.edu", "s05@e.edu",
     "s06@e.edu", "s07@e.edu", "s08@e.edu", "s09@e.edu", "s10@e.edu" >>

\* The activity whose capacity boundary the earlier runs approached.
NearFull == "Math Club"

\* Path parameter activity_name: two activities of the catalogue and one
\* name that no Activity row has.
InputActivities == {"Chess Club", "Math Club", "Knitting Club"}

\* Those of them that the catalogue has.
CatalogueActivities == {"Chess Club", "Math Club"}

\* Query parameter email: two emails that have no Student row at startup.
InputEmails == {"x@e.edu", "new@e.edu"}

Ops == {"signup", "unregister", "list", "init"}

\* ------------------------------------------------------------------- state

VARIABLES
  students,        \* committed Student rows (emails)
  activities,      \* committed Activity rows
  participations,  \* committed Participation rows: a bag of pairs
  writer,          \* the process whose transaction holds the write lock, or 0
  pc,              \* each process's place in its handler
  req,             \* each process's request
  loc,             \* each handler's local variables
  flushed,         \* Student rows each session has flushed but not committed
  batch,           \* rows init_db's session has flushed but not committed
  sessions,        \* the processes whose session is open
  pre,             \* history: the committed store when each call began
  last,            \* history: the call that completed last
  prev,            \* history: the successful signup or failed init_db
                   \* completed just before last
  signedUp,        \* history: pairs signed up with no unregister call since
  audit,           \* whether this run keeps the history of its calls
  listen           \* whether this run keeps the answer of its last call

vars == << students, activities, participations, writer, pc, req, loc,
           flushed, batch, sessions, pre, last, prev, signedUp, audit,
           listen >>

history == << pre, last, prev, signedUp, audit, listen >>

store == << students, activities, participations >>

Committed == [students |-> students, activities |-> activities,
              participations |-> participations]

EmptyStore == [students |-> {}, activities |-> {}, participations |-> EmptyBag]

EmptyBatch == [activities |-> {}, students |-> {}, rows |-> EmptyBag]

\* ----------------------------------------------------------- store queries

\* Query.first(): the first row of a result, or None (the empty set).
First(S) == IF S = {} THEN {} ELSE {CHOOSE x \in S : TRUE}

\* db.query(Activity).filter(Activity.name == activity_name).first()
ActivityByName(rows, activity_name) ==
  First({r \in rows : r.name = activity_name})

\* db.query(Student).filter(Student.email == email).first()
StudentByEmail(rows, email) == First({s \in rows : s = email})

\* Participation(student_id=student.id, activity_id=activity.id)
Participation(email, activity_name) ==
  [student |-> email, activity |-> activity_name]

\* Mutant of ParticipationOf: the query never finds a row.
NoParticipationOf(rows, email, activity_name) == {}

\* db.query(Participation).filter(student_id == .., activity_id == ..).first()
ParticipationOf(rows, email, activity_name) ==
  IF CopiesIn(Participation(email, activity_name), rows) > 0
    THEN {Participation(email, activity_name)}
    ELSE {}

\* db.query(Participation).filter(activity_id == activity.id).count()
ParticipantCount(rows, activity_name) ==
  LET of == {r \in BagToSet(rows) : r.activity = activity_name}
  IN  BagCardinality([r \in of |-> rows[r]])

\* Mutant of Entry: the count is not restricted to the activity.
EntryOfAllRows(activity, rows) ==
  [name |-> activity.name,
   max_participants |-> activity.max_participants,
   participants |-> BagCardinality(rows)]

\* The participants entry a listing reports for one activity.
Entry(activity, rows) ==
  [name |-> activity.name,
   max_participants |-> activity.max_participants,
   participants |-> ParticipantCount(rows, activity.name)]

\* ----------------------------------------------------------------- session

\* sessionmaker(autocommit=False, autoflush=False, ...): a query does not
\* flush the session's pending rows first.
autoflush == FALSE

\* Mutant of db_close: closing the session commits what it has flushed.
db_close_commits(committed, pending) == committed \cup pending

\* Session.close() of get_db's finally: the open transaction is rolled back,
\* so the committed rows stay and the flushed ones are dropped.
db_close(committed, pending) == committed

\* Mutant of db_rollback: the rows sent so far stay in the store.
db_rollback_partial(c, b) ==
  [students |-> c.students \cup b.students,
   activities |-> c.activities \cup b.activities,
   participations |-> c.participations (+) b.rows]

\* db.rollback() of init_db's except branch: the committed store c stays and
\* the rows b of the open transaction are dropped.
db_rollback(c, b) == c

\* Mutant of get_db_finally: no finally, the session is closed only when the
\* handler returns.
get_db_no_finally(open, p, raised) == IF raised THEN open ELSE open \ {p}

\* get_db (and init_db): try ... finally: db.close(), whether the call
\* returned or raised.
get_db_finally(open, p, raised) == open \ {p}

\* Mutant of db_commit: the flushed rows are lost.
db_commit_drops(committed, pending) == committed

\* Session.commit(): the flushed rows become committed rows.
db_commit(committed, pending) == committed \cup pending

\* Mutant of IsFull: the comparison off by one.
IsFullOffByOne(participant_count, max_participants) ==
  participant_count > max_participants

\* if participant_count >= activity.max_participants
IsFull(participant_count, max_participants) ==
  participant_count >= max_participants

\* ------------------------------------------------------------------ init_db

\* The inner loop of init_db over one activity's emails: a student that no
\* visible row has is added and flushed (the flush sends every pending row,
\* the activities included), then the participation is added.
RECURSIVE SeedEmails(_, _, _, _)
SeedEmails(s, activity_name, emails, j) ==
  IF j > Len(emails) THEN s
  ELSE
    LET email   == emails[j]
        student == StudentByEmail(s.known \cup s.students, email)
        s1 == IF student = {}
                THEN [s EXCEPT !.students = @ \cup {email}, !.flushed = TRUE]
                ELSE s
        s2 == [s1 EXCEPT !.rows = @ (+) SetToBag({Participation(email, activity_name)})]
    IN  SeedEmails(s2, activity_name, emails, j + 1)

\* The outer loop of init_db over sample_participants: the activity is looked
\* up with a query, which sees the pending Activity rows only once flushed.
RECURSIVE SeedActivities(_, _, _)
SeedActivities(s, pending, i) ==
  IF i > Len(sample_participants) THEN s
  ELSE
    LET sp       == sample_participants[i]
        visible  == s.activities \cup (IF s.flushed THEN pending ELSE {})
        activity == ActivityByName(visible, sp.activity_name)
    IN  SeedActivities(
          IF activity = {} THEN s
          ELSE SeedEmails(s, sp.activity_name, sp.emails, 1),
          pending, i + 1)

\* The rows init_db's session holds when it reaches db.commit(), run against
\* the committed store c.
Seed(c) ==
  LET pending == {activities_data[i] : i \in 1..Len(activities_data)}
      s == SeedActivities([known |-> c.students, activities |-> c.activities,
                           students |-> {}, rows |-> EmptyBag,
                           flushed |-> autoflush], pending, 1)
  IN  [activities |-> pending, students |-> s.students, rows |-> s.rows]

\* ------------------------------------------------------------- initial state

\* A store left by earlier runs: the catalogue, and k students enrolled in
\* the NearFull activity.
EarlierStore(k) ==
  [students |-> {EarlierStudents[i] : i \in 1..k},
   activities |-> {activities_data[i] : i \in 1..Len(activities_data)},
   participations |->
     SetToBag({Participation(EarlierStudents[i], NearFull) : i \in 1..k})]

NearFullCapacity ==
  (CHOOSE r \in {activities_data[i] : i \in 1..Len(activities_data)} :
     r.name = NearFull).max_participants

\* The store at startup: fresh, or left by earlier runs.
InitStores ==
  {EmptyStore} \cup
  {EarlierStore(k) : k \in {n \in 1..Len(EarlierStudents) :
                              /\ n <= NearFullCapacity
                              /\ NearFullCapacity - n <= Slack}}

NoReq  == [op |-> "none", activity_name |-> "", email |-> ""]
NoLoc  == [activity |-> {}, student |-> {}, gone |-> "no",
           todo |-> << >>, result |-> {}]
NoCall == [op |-> "none", activity_name |-> "", email |-> "", status |-> 0,
           detail |-> "", pre |-> EmptyStore, result |-> {}, again |-> FALSE,
           flushed |-> {}, batch |-> EmptyBatch]

Startup ==
  /\ \E s \in InitStores :
       /\ students = s.students
       /\ activities = s.activities
       /\ participations = s.participations
  /\ writer = 0
  /\ pc = [p \in Procs |-> "idle"]
  /\ req = [p \in Procs |-> NoReq]
  /\ loc = [p \in Procs |-> NoLoc]
  /\ flushed = [p \in Procs |-> {}]
  /\ batch = [p \in Procs |-> EmptyBatch]
  /\ sessions = {}
  /\ pre = [p \in Procs |-> EmptyStore]
  /\ last = NoCall
  /\ prev = NoCall
  /\ signedUp = {}

\* A run of concurrent calls keeps no history.
Init == Startup /\ audit = FALSE /\ listen = FALSE

\* A run of calls made one at a time is audited.
InitSeq == Startup /\ audit = TRUE /\ listen = FALSE

\* A run of racing calls keeps the answer of the call that completed last.
InitRace == Startup /\ audit = FALSE /\ listen = TRUE

\* ------------------------------------------------------- a call's two ends

\* A request arrives: Depends(get_db) opens the call's session and the
\* handler starts at its first query.
Begin(p, op, activity_name, email) ==
  /\ pc[p] = "idle"
  /\ pc' = [pc EXCEPT ![p] = CASE op = "signup"     -> "su_activity"
                              [] op = "unregister" -> "un_activity"
                              [] op = "list"       -> "ls_all"
                              [] OTHER             -> "init_check"]
  /\ req' = [req EXCEPT ![p] = [op |-> op, activity_name |-> activity_name,
                                email |-> email]]
  /\ pre' = IF audit THEN [pre EXCEPT ![p] = Committed] ELSE pre
  /\ sessions' = sessions \cup {p}
  /\ UNCHANGED << store, writer, loc, flushed, batch, last, prev, signedUp,
                  audit, listen >>

\* The history of a completed call, kept when the run is audited: the call
\* with its response, the store it began from and the rows its session had
\* flushed when its last step began; the successful signup or failed init_db
\* just before it; and the pairs signed up with no unregister call since
\* (again: the call's own pair was one of them).  A run that only listens
\* keeps the call and its status and detail.
Record(p, status, detail, result) ==
  /\ UNCHANGED << audit, listen >>
  /\ IF audit
       THEN /\ pre' = [pre EXCEPT ![p] = EmptyStore]
            /\ last' = [op |-> req[p].op,
                        activity_name |-> req[p].activity_name,
                        email |-> req[p].email, status |-> status,
                        detail |-> detail, pre |-> pre[p], result |-> result,
                        again |-> << req[p].activity_name, req[p].email >>
                                    \in signedUp,
                        flushed |-> flushed[p], batch |-> batch[p]]
            /\ prev' = IF \/ last.op = "signup" /\ last.status = 200
                          \/ last.op = "init" /\ last.status = 500
                         THEN last ELSE NoCall
            /\ signedUp' =
                 LET pair == << req[p].activity_name, req[p].email >>
                 IN  CASE req[p].op = "signup" /\ status = 200 ->
                            signedUp \cup {pair}
                       [] req[p].op = "unregister" -> signedUp \ {pair}
                       [] OTHER -> signedUp
       ELSE /\ last' = IF listen
                         THEN [NoCall EXCEPT !.op = req[p].op,
                                 !.activity_name = req[p].activity_name,
                                 !.email = req[p].email,
                                 !.status = status, !.detail = detail]
                         ELSE last
            /\ UNCHANGED << pre, prev, signedUp >>

\* The handler returns or raises: the session is closed (its transaction,
\* if one is open, ends and gives up the write lock) and the response goes
\* out.  locs is loc as the step leaves the other processes' locals.
Finish(p, status, detail, result, locs) ==
  /\ pc' = [pc EXCEPT ![p] = "idle"]
  /\ req' = [req EXCEPT ![p] = NoReq]
  /\ loc' = [locs EXCEPT ![p] = NoLoc]
  /\ flushed' = [flushed EXCEPT ![p] = {}]
  /\ batch' = [batch EXCEPT ![p] = EmptyBatch]
  /\ sessions' = get_db_finally(sessions, p, status # 200)
  /\ writer' = IF writer = p THEN 0 ELSE writer
  /\ Record(p, status, detail, result)

\* raise HTTPException(...) or an error of the store: nothing is committed,
\* and get_db's finally closes the session.
Raise(p, status, detail) ==
  /\ Finish(p, status, detail, {}, loc)
  /\ students' = db_close(students, flushed[p])
  /\ UNCHANGED << activities, participations >>

\* init_db's except branch: db.rollback(), then the error is raised again and
\* the finally closes the session.
InitRaise(p, status, detail) ==
  /\ Finish(p, status, detail, {}, loc)
  /\ LET c == db_rollback(Committed, batch[p])
     IN  /\ students' = c.students
         /\ activities' = c.activities
         /\ participations' = c.participations

\* A step that neither ends the call nor touches the store.
Goto(p, label, locals) ==
  /\ pc' = [pc EXCEPT ![p] = label]
  /\ loc' = [loc EXCEPT ![p] = locals]
  /\ UNCHANGED << store, writer, req, flushed, batch, sessions, history >>

\* The rows a session's queries see: the committed ones and its own flushed
\* ones.
Visible(p) == students \cup flushed[p]

\* The write lock of the store is free for p's transaction.
CanWrite(p) == writer \in {0, p}

\* ------------------------------------------------------ signup_for_activity

\* Mutant of SuActivity: the student is looked up or created, and committed,
\* before the activity is checked.
SuActivityAfterStudent(p) ==
  /\ pc[p] = "su_activity"
  /\ LET activity == ActivityByName(activities, req[p].activity_name)
     IN  IF activity = {}
           THEN /\ students' = db_commit(students, {req[p].email})
                /\ UNCHANGED << activities, participations >>
                /\ Finish(p, 404, "Activity not found", {}, loc)
           ELSE Goto(p, "su_student", [loc[p] EXCEPT !.activity = activity])

\* activity = db.query(Activity)...first(); 404 if there is none.
SuActivity(p) ==
  /\ pc[p] = "su_activity"
  /\ LET activity == ActivityByName(activities, req[p].activity_name)
     IN  IF activity = {}
           THEN Raise(p, 404, "Activity not found")
           ELSE Goto(p, "su_student", [loc[p] EXCEPT !.activity = activity])

\* student = db.query(Student)...first()
SuStudent(p) ==
  /\ pc[p] = "su_student"
  /\ LET student == StudentByEmail(Visible(p), req[p].email)
     IN  Goto(p, IF student = {} THEN "su_flush" ELSE "su_existing",
              [loc[p] EXCEPT !.student = student])

\* Mutant of SuFlush: the email column has no unique index.
SuFlushUnchecked(p) ==
  /\ pc[p] = "su_flush"
  /\ CanWrite(p)
  /\ flushed' = [flushed EXCEPT ![p] = @ \cup {req[p].email}]
  /\ writer' = p
  /\ pc' = [pc EXCEPT ![p] = "su_existing"]
  /\ loc' = [loc EXCEPT ![p].student = {req[p].email}]
  /\ UNCHANGED << store, req, batch, sessions, history >>

\* student = Student(email=email); db.add(student); db.flush(): the INSERT
\* starts the session's transaction; the unique index on email rejects it
\* if another call has committed the email since the query.
SuFlush(p) ==
  /\ pc[p] = "su_flush"
  /\ CanWrite(p)
  /\ IF req[p].email \in students
       THEN Raise(p, 500, "IntegrityError")
       ELSE /\ flushed' = [flushed EXCEPT ![p] = @ \cup {req[p].email}]
            /\ writer' = p
            /\ pc' = [pc EXCEPT ![p] = "su_existing"]
            /\ loc' = [loc EXCEPT ![p].student = {req[p].email}]
            /\ UNCHANGED << store, req, batch, sessions, history >>

\* existing_participation = db.query(Participation)...first(); 400 if any.
SuExisting(p) ==
  /\ pc[p] = "su_existing"
  /\ LET existing_participation ==
           ParticipationOf(participations, req[p].email, req[p].activity_name)
     IN  IF existing_participation # {}
           THEN Raise(p, 400, "Student is already signed up for this activity")
           ELSE Goto(p, "su_count", loc[p])

\* participant_count = db.query(Participation)...count(); 400 if full;
\* otherwise the Participation is added to the session.
SuCount(p) ==
  /\ pc[p] = "su_count"
  /\ LET activity == CHOOSE a \in loc[p].activity : TRUE
         participant_count == ParticipantCount(participations, activity.name)
     IN  IF IsFull(participant_count, activity.max_participants)
           THEN Raise(p, 400, "Activity is full")
           ELSE Goto(p, "su_commit", loc[p])

\* db.commit(): the Participation is inserted and the transaction, with the
\* Student flushed earlier if any, is committed.
SuCommit(p) ==
  /\ pc[p] = "su_commit"
  /\ CanWrite(p)
  /\ students' = db_commit(students, flushed[p])
  /\ participations' = participations (+)
       SetToBag({Participation(req[p].email, req[p].activity_name)})
  /\ UNCHANGED activities
  /\ Finish(p, 200, "Signed up", {}, loc)

\* ------------------------------------------------- unregister_from_activity

\* activity = db.query(Activity)...first(); 404 if there is none.
UnActivity(p) ==
  /\ pc[p] = "un_activity"
  /\ LET activity == ActivityByName(activities, req[p].activity_name)
     IN  IF activity = {}
           THEN Raise(p, 404, "Activity not found")
           ELSE Goto(p, "un_student", [loc[p] EXCEPT !.activity = activity])

\* Mutant of UnStudent: a missing student is reported as 400.
UnStudentBadRequest(p) ==
  /\ pc[p] = "un_student"
  /\ LET student == StudentByEmail(Visible(p), req[p].email)
     IN  IF student = {}
           THEN Raise(p, 400, "Student not found")
           ELSE Goto(p, "un_participation", [loc[p] EXCEPT !.student = student])

\* student = db.query(Student)...first(); 404 if there is none.
UnStudent(p) ==
  /\ pc[p] = "un_student"
  /\ LET student == StudentByEmail(Visible(p), req[p].email)
     IN  IF student = {}
           THEN Raise(p, 404, "Student not found")
           ELSE Goto(p, "un_participation", [loc[p] EXCEPT !.student = student])

\* participation = db.query(Participation)...first(); 400 if there is none.
\* The session now holds one row of the pair (gone = "no").
UnParticipation(p) ==
  /\ pc[p] = "un_participation"
  /\ LET participation ==
           ParticipationOf(participations, req[p].email, req[p].activity_name)
     IN  IF participation = {}
           THEN Raise(p, 400, "Student is not signed up for this activity")
           ELSE Goto(p, "un_commit", [loc[p] EXCEPT !.gone = "no"])

\* Whether the row p's session holds may still be in the table: first() has
\* no ORDER BY, so with duplicate rows of a pair two sessions may hold the
\* same row or different ones.
RowThere(p) ==
  LET n == CopiesIn(Participation(req[p].email, req[p].activity_name),
                    participations)
  IN  CASE n = 0 \/ loc[p].gone = "yes" -> {FALSE}
        [] loc[p].gone = "maybe"        -> {TRUE, FALSE}
        [] OTHER                        -> {TRUE}

\* What p's deleting one of n rows of its pair tells the other sessions that
\* hold a row of the same pair.
AfterDelete(p, n) ==
  [q \in Procs |->
     IF /\ q # p
        /\ pc[q] = "un_commit"
        /\ req[q].email = req[p].email
        /\ req[q].activity_name = req[p].activity_name
        /\ loc[q].gone # "yes"
       THEN [loc[q] EXCEPT !.gone = IF n = 1 THEN "yes" ELSE "maybe"]
       ELSE loc[q]]

\* Mutant of UnCommit: the Student row is deleted with its enrollment.
UnCommitDropsStudent(p) ==
  /\ pc[p] = "un_commit"
  /\ CanWrite(p)
  /\ LET row == Participation(req[p].email, req[p].activity_name)
         n   == CopiesIn(row, participations)
     IN  /\ participations' = participations (-) SetToBag({row})
         /\ students' = students \ {req[p].email}
         /\ UNCHANGED activities
         /\ Finish(p, 200, "Unregistered", {}, AfterDelete(p, n))

\* Mutant of UnCommit: the delete is never committed, and closing the
\* session rolls it back.
UnCommitForgotten(p) ==
  /\ pc[p] = "un_commit"
  /\ UNCHANGED store
  /\ Finish(p, 200, "Unregistered", {}, loc)

\* db.delete(participation); db.commit(): DELETE of the row the session
\* holds, by its id.  If another call has deleted that row meanwhile the
\* DELETE matches no row: the ORM warns and the call still returns 200, or
\* raises StaleDataError (the version of the library decides).
UnCommit(p) ==
  /\ pc[p] = "un_commit"
  /\ CanWrite(p)
  /\ LET row == Participation(req[p].email, req[p].activity_name)
         n   == CopiesIn(row, participations)
     IN  \E there \in RowThere(p) :
           IF there
             THEN /\ participations' = participations (-) SetToBag({row})
                  /\ UNCHANGED << students, activities >>
                  /\ Finish(p, 200, "Unregistered", {}, AfterDelete(p, n))
             ELSE \/ /\ UNCHANGED store
                     /\ Finish(p, 200, "Unregistered", {}, loc)
                  \/ Raise(p, 500, "StaleDataError")

\* ----------------------------------------------------------- get_activities

\* activities = db.query(Activity).all(), in the order of the rows' ids.
LsAll(p) ==
  /\ pc[p] = "ls_all"
  /\ LET all == SelectSeq(activities_data, LAMBDA r : r \in activities)
     IN  IF all = << >>
           THEN /\ Finish(p, 200, "", {}, loc)
                /\ UNCHANGED store
           ELSE Goto(p, "ls_count", [loc[p] EXCEPT !.todo = all])

\* One turn of the loop: the count query for the next activity; after the
\* last one the result is returned.
LsCount(p) ==
  /\ pc[p] = "ls_count"
  /\ LET activity == Head(loc[p].todo)
         result   == loc[p].result \cup {Entry(activity, participations)}
     IN  IF Len(loc[p].todo) = 1
           THEN /\ Finish(p, 200, "", result, loc)
                /\ UNCHANGED store
           ELSE Goto(p, "ls_count",
                     [loc[p] EXCEPT !.todo = Tail(@), !.result = result])

\* ------------------------------------------------------------------ init_db

\* Mutant of InitCheck: the check for existing rows is missing.
InitCheckMissing(p) ==
  /\ pc[p] = "init_check"
  /\ Goto(p, "init_seed", loc[p])

\* if db.query(Activity).first(): return ("Database already initialized").
InitCheck(p) ==
  /\ pc[p] = "init_check"
  /\ IF First(activities) # {}
       THEN /\ Finish(p, 200, "Database already initialized", {}, loc)
            /\ UNCHANGED store
       ELSE Goto(p, "init_seed", loc[p])

\* The rest of init_db up to the flush that db.commit() begins with: the
\* catalogue and the sample enrollments are added and sent to the store in
\* one transaction.  If Activity rows have been committed since the check,
\* the unique index on name rejects the catalogue: the except branch rolls
\* back and re-raises.
InitSeed(p) ==
  /\ pc[p] = "init_seed"
  /\ CanWrite(p)
  /\ IF activities # {}
       THEN InitRaise(p, 500, "IntegrityError")
       ELSE /\ batch' = [batch EXCEPT ![p] = Seed(Committed)]
            /\ writer' = p
            /\ pc' = [pc EXCEPT ![p] = "init_commit"]
            /\ UNCHANGED << store, req, loc, flushed, sessions, history >>

\* The COMMIT that db.commit() ends with: the batch becomes committed rows.
InitCommit(p) ==
  /\ pc[p] = "init_commit"
  /\ activities' = activities \cup batch[p].activities
  /\ students' = db_commit(students, batch[p].students)
  /\ participations' = participations (+) batch[p].rows
  /\ Finish(p, 200, "Database initialized with sample data", {}, loc)

\* ------------------------------------------------------------ the store lock

\* A write that waits for another session's transaction longer than the
\* store's busy timeout fails ("database is locked").
Busy(p) ==
  /\ pc[p] \in {"su_flush", "su_commit", "un_commit", "init_seed"}
  /\ ~CanWrite(p)
  /\ Raise(p, 500, "OperationalError")

\* The store fails a statement of p's call (the file or the connection is
\* lost): the call ends with the error, init_db through its except branch.
Fault(p) ==
  /\ pc[p] # "idle"
  /\ IF req[p].op = "init"
       THEN InitRaise(p, 500, "DBAPIError")
       ELSE Raise(p, 500, "DBAPIError")

\* ------------------------------------------------------------ specifications

Step(p) ==
  \/ SuActivity(p) \/ SuStudent(p) \/ SuFlush(p) \/ SuExisting(p)
  \/ SuCount(p) \/ SuCommit(p)
  \/ UnActivity(p) \/ UnStudent(p) \/ UnParticipation(p) \/ UnCommit(p)
  \/ LsAll(p) \/ LsCount(p)
  \/ InitCheck(p) \/ InitSeed(p) \/ InitCommit(p)

Call(p, names, readers) ==
  \/ \E a \in names, e \in InputEmails :
       \/ Begin(p, "signup", a, e)
       \/ Begin(p, "unregister", a, e)
  \/ p \in readers /\ Begin(p, "list", "", "")
  \/ Begin(p, "init", "", "")

\* The calls of the processes, interleaved at their store queries.  The
\* concurrent calls name activities of the catalogue (a name that no row has
\* is refused at the first query only while the store is fresh), and one
\* process makes the listings: a listing only reads, so that two of them in
\* flight at once do nothing that one of them, beside any other call, does
\* not.
Next ==
  \E p \in Procs : Call(p, CatalogueActivities, {1}) \/ Step(p) \/ Busy(p)

Spec == Init /\ [][Next]_vars

\* Calls executed one at a time: one process, each call run to its end
\* before the next begins.
NextSeq == Call(1, InputActivities, {1}) \/ Step(1)

SpecSeq == InitSeq /\ [][NextSeq]_vars

\* Calls executed one at a time against a store that may fail any of their
\* statements.
NextFault == Call(1, CatalogueActivities, {1}) \/ Step(1) \/ Fault(1)

SpecFault == InitSeq /\ [][NextFault]_vars

\* Both processes signing the same email up for, and unregistering it from,
\* the activities of the catalogue, with init_db and listings among them.
RaceEmail == "x@e.edu"

RaceCall(p) ==
  \/ \E a \in CatalogueActivities :
       \/ Begin(p, "signup", a, RaceEmail)
       \/ Begin(p, "unregister", a, RaceEmail)
  \/ Begin(p, "init", "", "")
  \/ p = 1 /\ Begin(p, "list", "", "")

NextRace == \E p \in Procs : RaceCall(p) \/ Step(p) \/ Busy(p)

SpecRace == InitRace /\ [][NextRace]_vars

\* -------------------------------------------------------------------------
\* Properties
\* -------------------------------------------------------------------------

Count(c, activity_name) == ParticipantCount(c.participations, activity_name)

Rows(c, email, activity_name) ==
  CopiesIn(Participation(email, activity_name), c.participations)

HasActivity(c, activity_name) == \E a \in c.activities : a.name = activity_name

Capacity(c, activity_name) ==
  (CHOOSE a \in c.activities : a.name = activity_name).max_participants

SameCounts(c, d) ==
  \A a \in c.activities \cup d.activities : Count(c, a.name) = Count(d, a.name)

\* C1. Calls made one at a time: every activity holds at most
\* max_participants Participation rows, and that is what every listing
\* get_activities has returned reports.
C1_CapacitySequential ==
  /\ \A a \in activities : Count(Committed, a.name) <= a.max_participants
  /\ last.op = "list" =>
       \A entry \in last.result : entry.participants <= entry.max_participants

\* C1 witness: a listing that reports the NearFull activity exactly full,
\* with a student of this run among its participants.
C1_Witness ==
  /\ last.op = "list"
  /\ \E entry \in last.result :
       /\ entry.name = NearFull
       /\ entry.participants = entry.max_participants
  /\ \E e \in InputEmails : Rows(Committed, e, NearFull) = 1

\* The store as it is just after init_db has run on a fresh store: no student
\* enrolled by an earlier run, and no call of this run has changed a row.
FreshlySeeded ==
  /\ last.op = "init"
  /\ last.pre = EmptyStore

\* C2. After init_db on a fresh store every catalogue activity holds exactly
\* its two sample enrollments, with a Student row for each sample email; a
\* following successful signup of a new email for "Chess Club" makes its
\* count 3.
C2_SeededEnrollments ==
  /\ FreshlySeeded =>
       \A i \in 1..Len(sample_participants) :
         LET sp == sample_participants[i]
         IN  /\ Count(Committed, sp.activity_name) = 2
             /\ \A j \in 1..Len(sp.emails) :
                  /\ sp.emails[j] \in students
                  /\ Rows(Committed, sp.emails[j], sp.activity_name) = 1
  /\ ( /\ last.op = "signup"
       /\ last.status = 200
       /\ last.activity_name = "Chess Club"
       /\ last.pre.students \cap InputEmails = {}
       /\ EarlierStudents[1] \notin students )
     => Count(Committed, "Chess Club") = 3

\* C5. Calls made one at a time: a signup for a pair that an earlier signup
\* succeeded for, with no unregister call for the pair since, fails with 400
\* "Student is already signed up for this activity", full activity or not,
\* and leaves every committed row as it was; no pair ever has two rows.
C5_DuplicateSignup ==
  /\ (last.op = "signup" /\ last.again) =>
       /\ last.status = 400
       /\ last.detail = "Student is already signed up for this activity"
       /\ Committed = last.pre
  /\ \A a \in InputActivities, e \in InputEmails : Rows(Committed, e, a) <= 1

\* C5 witness: the second signup of a pair has been refused as a duplicate
\* while its activity was full.
C5_Witness ==
  /\ last.op = "signup"
  /\ last.again
  /\ last.status = 400
  /\ last.activity_name = NearFull
  /\ Count(Committed, NearFull) >= Capacity(Committed, NearFull)
  /\ Rows(Committed, last.email, NearFull) = 1

\* C6. Calls made one at a time: a signup for an activity that already holds
\* max_participants rows or more, by a student not enrolled in it, fails with
\* 400 "Activity is full" and leaves every activity's count as it was.
C6_ActivityFull ==
  ( /\ last.op = "signup"
    /\ HasActivity(last.pre, last.activity_name)
    /\ Count(last.pre, last.activity_name)
         >= Capacity(last.pre, last.activity_name)
    /\ Rows(last.pre, last.email, last.activity_name) = 0 )
  => /\ last.status = 400
     /\ last.detail = "Activity is full"
     /\ SameCounts(Committed, last.pre)

\* C6 witness: a signup by a student who has a Student row has been refused
\* by a full activity.
C6_Witness ==
  /\ last.op = "signup"
  /\ last.email \in last.pre.students
  /\ last.status = 400
  /\ last.detail = "Activity is full"
  /\ Count(last.pre, last.activity_name)
       >= Capacity(last.pre, last.activity_name)
  /\ Rows(last.pre, last.email, last.activity_name) = 0

\* A signup by an email that had no Student row has been refused by a full
\* activity.
NewStudentRefused ==
  /\ last.op = "signup"
  /\ HasActivity(last.pre, last.activity_name)
  /\ last.email \notin last.pre.students
  /\ last.status = 400
  /\ last.detail = "Activity is full"

\* C7 as stated: after a signup by a new email has been refused by a full
\* activity, the store holds a Student row for the email.
C7_StudentSurvives == NewStudentRefused => last.email \in students

\* C7 as amended: after a signup by a new email has been refused by a full
\* activity, the store holds no Student row for the email: the row was
\* flushed, never committed, and closing the session rolled it back; every
\* committed row is as it was before the call.
C7_StudentRolledBack ==
  NewStudentRefused =>
    /\ last.email \notin students
    /\ Committed = last.pre

\* C7 witness: such a signup has been refused.
C7_Witness == NewStudentRefused /\ pc[1] = "idle"

\* C8. Calls made one at a time: an unregister fails with 404 "Activity not
\* found" if the activity does not exist (whether the student does or not),
\* else with 404 "Student not found" if the email has no Student row, else
\* with 400 if the pair has no Participation row; each of the three leaves
\* every committed row as it was.
C8_UnregisterFailures ==
  last.op = "unregister" =>
    LET c == last.pre
        a == last.activity_name
        e == last.email
    IN  /\ ~HasActivity(c, a) =>
             /\ last.status = 404
             /\ last.detail = "Activity not found"
             /\ Committed = c
        /\ (HasActivity(c, a) /\ e \notin c.students) =>
             /\ last.status = 404
             /\ last.detail = "Student not found"
             /\ Committed = c
        /\ (HasActivity(c, a) /\ e \in c.students /\ Rows(c, e, a) = 0) =>
             /\ last.status = 400
             /\ last.detail = "Student is not signed up for this activity"
             /\ Committed = c

\* C8 witness: an unregister of a student who has a Student row but no row in
\* the activity has been refused with 400, in a store where another of the
\* run's emails has no Student row.
C8_Witness ==
  /\ last.op = "unregister"
  /\ last.status = 400
  /\ HasActivity(last.pre, last.activity_name)
  /\ last.email \in last.pre.students
  /\ Rows(last.pre, last.email, last.activity_name) = 0
  /\ InputEmails \ students # {}

\* C9. Calls made one at a time: an unregister that immediately follows a
\* successful signup of the same pair succeeds, and leaves every activity's
\* count as it was before the signup.
C9_RoundTrip ==
  ( /\ last.op = "unregister"
    /\ prev.op = "signup"
    /\ prev.activity_name = last.activity_name
    /\ prev.email = last.email )
  => /\ last.status = 200
     /\ SameCounts(Committed, prev.pre)

\* C9 witness: a signup that took the last place of the NearFull activity has
\* been undone by the unregister that followed it.
C9_Witness ==
  /\ last.op = "unregister"
  /\ last.status = 200
  /\ prev.op = "signup"
  /\ prev.activity_name = NearFull
  /\ last.activity_name = NearFull
  /\ prev.email = last.email
  /\ Count(prev.pre, NearFull) + 1 = Capacity(prev.pre, NearFull)

\* C10. Calls made one at a time: init_db on a store that already holds an
\* Activity row returns without an error and leaves every committed row as it
\* was, whatever signups and unregisters came before.
C10_BootstrapIdempotent ==
  (last.op = "init" /\ last.pre.activities # {}) =>
    /\ last.status = 200
    /\ last.detail = "Database already initialized"
    /\ Committed = last.pre

\* C10 witness: init_db has run a second time on the store it seeded itself,
\* after a signup had enrolled a student.
C10_Witness ==
  /\ last.op = "init"
  /\ last.pre.activities # {}
  /\ EarlierStudents[1] \notin students
  /\ \E e \in InputEmails : Rows(Committed, e, "Chess Club") = 1

\* The calls that have passed signup's capacity check for an activity and
\* have not committed yet.
PastCapacityCheck(activity_name) ==
  {p \in Procs : pc[p] = "su_commit" /\ req[p].activity_name = activity_name}

\* C3. Concurrent calls: nothing keeps two signups from both passing the
\* capacity check before either commits, so an activity can hold more rows
\* than max_participants; each call past the check accounts for at most one
\* row, so two calls overshoot by at most one.
C3_OverCapacityRace ==
  \A a \in activities :
    Count(Committed, a.name) + Cardinality(PastCapacityCheck(a.name))
      <= a.max_participants + Cardinality(Procs) - 1

\* C3 witness: the NearFull activity held max_participants - 1 rows, two
\* different students signed up concurrently, and both rows are committed:
\* it holds more rows than max_participants.
C3_Witness ==
  /\ EarlierStudents[NearFullCapacity - 1] \in students
  /\ EarlierStudents[NearFullCapacity] \notin students
  /\ \A e \in InputEmails : Rows(Committed, e, NearFull) = 1
  /\ Count(Committed, NearFull) > Capacity(Committed, NearFull)

\* The calls that have passed signup's already-signed-up check for a pair and
\* have not committed yet.
PastDuplicateCheck(email, activity_name) ==
  {p \in Procs : /\ pc[p] \in {"su_count", "su_commit"}
                 /\ req[p].email = email
                 /\ req[p].activity_name = activity_name}

C11_SeedingAllOrNothing ==
  /\ (last.op = "init" /\ last.status = 500)
       => /\ Committed = last.pre
          /\ (pc[1] = "idle" => 1 \notin sessions /\ batch[1] = EmptyBatch)
  /\ (/\ last.op = "init" /\ last.status = 200
      /\ prev.op = "init" /\ last.pre.activities = {})
       => /\ last.detail = "Database initialized with sample data"
          /\ {a.name : a \in activities}
               = {activities_data[i].name : i \in DOMAIN activities_data}

\* C11 witness: an init_db failed after its batch had been flushed, the store
\* stayed empty, and the next init_db seeded it.
C11_Witness ==
  /\ last.op = "init" /\ last.status = 200
  /\ prev.op = "init" /\ prev.status = 500
  /\ prev.batch.activities # {}
  /\ prev.pre = EmptyStore /\ last.pre = EmptyStore
  /\ activities # {}

\* C12: get_activities is an exact, read-only snapshot.  The listing a call
\* returned has exactly one entry for every committed Activity row and none
\* besides; the entry reports the number of Participation rows of that
\* activity and its stored max_participants; and the store is what it was
\* when the call began.
C12_ListingSnapshot ==
  (last.op = "list" /\ last.status = 200)
    => /\ \A a \in activities :
            {e \in last.result : e.name = a.name}
              = {[name |-> a.name,
                  max_participants |-> a.max_participants,
                  participants |-> Count(Committed, a.name)]}
       /\ \A e \in last.result : HasActivity(Committed, e.name)
       /\ Committed = last.pre

\* C12 witness: a listing of the whole catalogue in which two activities have
\* different, non-zero numbers of participants.
C12_Witness ==
  /\ last.op = "list" /\ last.status = 200
  /\ Cardinality(last.result) = Len(activities_data)
  /\ \E e1, e2 \in last.result :
       /\ e1.participants > 0 /\ e2.participants > 0
       /\ e1.participants # e2.participants

\* C13: scoped session.  A call has an open session exactly while it runs:
\* one is acquired when it starts and whatever way the call ends (success,
\* NotFound or Conflict, unexpected error) it is closed, holding no flushed
\* row and no lock; and a call that did not succeed leaves the committed
\* store as it found it, the rows it had flushed being discarded.
C13_ScopedSession ==
  /\ \A p \in Procs : p \in sessions <=> pc[p] # "idle"
  /\ \A p \in Procs :
       pc[p] = "idle"
         => flushed[p] = {} /\ batch[p] = EmptyBatch /\ writer # p
  /\ (last.op # "none" /\ last.status # 200) => Committed = last.pre

\* C13 witness: a signup had flushed a Student row when an unexpected error
\* ended it; its session is closed and the row is not in the store.
C13_Witness ==
  /\ last.op = "signup" /\ last.status = 500
  /\ last.flushed = {last.email}
  /\ last.email \notin students
  /\ sessions = {} /\ pc[1] = "idle"

\* C14: a signup for an activity that has no Activity row is answered 404
\* "Activity not found" before the student is looked at: its session has
\* flushed no Student row, and the committed store (no Student row for the
\* email if there was none, no Participation row added) is what it was.
C14_SignupUnknownActivity ==
  (last.op = "signup" /\ ~HasActivity(last.pre, last.activity_name))
    => /\ last.status = 404
       /\ last.detail = "Activity not found"
       /\ last.flushed = {}
       /\ Committed = last.pre

\* C14 witness: on a seeded store, a signup of an email without a Student row
\* for an activity that does not exist was refused.
C14_Witness ==
  /\ last.op = "signup" /\ last.status = 404
  /\ last.detail = "Activity not found"
  /\ last.pre.activities # {}
  /\ last.email \notin last.pre.students
  /\ last.email \notin students

\* C15: the frame of a successful signup.  The committed store after it is
\* the store it began from with exactly one more Participation row, the one
\* of its email and activity, and with a Student row for the email (a new one
\* only if there was none); every Activity row, every other Student row and
\* every Participation row that was there are unchanged.
C15_SignupFrame ==
  (last.op = "signup" /\ last.status = 200)
    => /\ participations
            = last.pre.participations
                (+) SetToBag({Participation(last.email, last.activity_name)})
       /\ students = last.pre.students \cup {last.email}
       /\ activities = last.pre.activities

\* C15 witness: a successful signup that created its Student row, on a store
\* that already held other Student and Participation rows.
C15_Witness ==
  /\ last.op = "signup" /\ last.status = 200
  /\ last.email \notin last.pre.students
  /\ last.email \in students
  /\ last.pre.students # {}
  /\ last.pre.participations # EmptyBag

\* C16: students are never removed.  In every interleaving of init_db,
\* get_activities, signup and unregister calls no step takes a committed
\* Student row away; so an unregister call for an existing activity and an
\* email whose Student row is committed is never answered 404, and when it
\* finds no Participation row of the pair (a successful unregister removed
\* it) it is answered 400, not signed up.
C16_StudentsPersist ==
  [][/\ students \subseteq students'
     /\ \A p \in Procs :
          (/\ pc[p] # "idle" /\ pc'[p] = "idle"
           /\ req[p].op = "unregister"
           /\ req[p].email \in students
           /\ HasActivity(Committed, req[p].activity_name))
            => /\ last'.op = "unregister"
               /\ last'.status # 404
               /\ (pc[p] = "un_participation"
                     => /\ Rows(Committed, req[p].email,
                                req[p].activity_name) = 0
                        /\ last'.status = 400
                        /\ last'.detail
                             = "Student is not signed up for this activity")
    ]_vars

\* C16 witness: an unregister was refused with 400 for a student whose row is
\* committed and who has no Participation row left in any activity.
C16_Witness ==
  /\ last.op = "unregister" /\ last.status = 400
  /\ last.email = RaceEmail /\ RaceEmail \in students
  /\ \A a \in activities : Rows(Committed, RaceEmail, a.name) = 0

UniqueStudents ==
  \A p \in Procs :
    /\ flushed[p] \cap students = {}
    /\ \A q \in Procs \ {p} : flushed[p] \cap flushed[q] = {}

\* C18: Student emails stay unique under concurrency.  In every interleaving
\* of signups that both found no Student row for their email, no Student row
\* is inserted for an email that is committed or inserted by another session,
\* so the store never holds two rows of one email; the call whose INSERT
\* meets the committed row of the other ends with an error, and no signup
\* that ends with an error commits a Student or a Participation row.
C18_UniqueEmail ==
  /\ []UniqueStudents
  /\ [][\A p \in Procs :
          /\ (/\ pc[p] = "su_flush" /\ pc'[p] # "su_flush"
              /\ req[p].email \in students)
               => /\ pc'[p] = "idle"
                  /\ last'.op = "signup" /\ last'.status = 500
          /\ (/\ req[p].op = "signup"
              /\ pc[p] # "idle" /\ pc'[p] = "idle"
              /\ last'.status # 200)
               => /\ students' = students
                  /\ participations' = participations
                  /\ flushed'[p] = {}
     ]_vars

\* C18 witness: two signups raced for an email without a Student row; one
\* committed it and the other was ended by the unique index.
C18_Witness ==
  /\ last.op = "signup" /\ last.status = 500
  /\ last.detail = "IntegrityError"
  /\ last.email \in students
  /\ \E a \in activities : Rows(Committed, last.email, a.name) = 1

====
